---- MODULE Spec2Model ----
(***************************************************************************)
(* Model of the HTML-to-CSV extraction pipeline of the Homepage repository *)
(* (scripts/utils/data-manager.js and the extraction script main()).       *)
(*                                                                         *)
(* Text is a sequence of one-symbol strings.  A column name (no,           *)
(* serverName, ...) is one symbol: it is a run of letters, which the CSV   *)
(* codec neither quotes nor trims.  A JavaScript object is the sequence of *)
(* its <<key, value>> pairs in insertion order, so Object.keys is the      *)
(* sequence of the first components.                                       *)
(***************************************************************************)
EXTENDS Integers, Sequences, FiniteSets, TLC

VARIABLES
    pc,         \* position of main(): which statement runs next
    src,        \* the two source HTML files: <<>> (unreadable) or <<document>>
    csv,        \* the two output files: <<>> (absent) or <<text>>
    preCsv,     \* the output files as they were before the run (history)
    data,       \* careerData / thanksData of main(): <<>> before extraction, then <<array>>
    validated,  \* per dataset: "none", "true" or "false" (the validator's answer in this run)
    stream,     \* the dataset whose write stream is open, or "none"
    pending,    \* what the stringifier piped to the open stream: <<>> or <<text>>
    log,        \* console output of main(), in order
    exitCode,   \* -1 while the process runs, then the exit status
    calls,      \* library calls: the exported functions called so far, in order
    arg,        \* library calls: the caller's input, [kind, value]
    cur,        \* library calls: the data array in the caller's hands
    valid,      \* library calls: the last validator answer, "none" before
    tmpFile,    \* library calls: the file at the caller's path, <<>> or <<text>>
    saved,      \* library calls: how saveToCSV's promise settled, "none" before
    loaded,     \* library calls: how loadFromCSV's promise settled
    uiCards,    \* thanks page: the gift cards, each [type, hidden, display, hiding]
    uiFilter,   \* thanks page: the filter of the last applyFilter call, "none" before
    uiTimers,   \* thanks page: the pending hide timers, oldest first, each a card index
    reduceMotion, \* thanks page: the prefers-reduced-motion setting
    selections  \* thanks page: the number of filter selections so far

vars == <<pc, src, csv, preCsv, data, validated, stream, pending, log, exitCode,
          calls, arg, cur, valid, tmpFile, saved, loaded,
          uiCards, uiFilter, uiTimers, reduceMotion, selections>>
orchVars == <<pc, src, csv, preCsv, data, validated, stream, pending, log, exitCode>>
libVars == <<calls, arg, cur, valid, tmpFile, saved, loaded>>
uiVars == <<uiCards, uiFilter, uiTimers, reduceMotion, selections>>

----------------------------------------------------------------------------
(* Bounds of the model *)

\* rows per table body, cards per year group
MaxRows == 2
\* year groups per thanks document
MaxGroups == 2
\* records per sequence handed to the CSV codec
MaxRecs == 2

----------------------------------------------------------------------------
(* Strings *)

\* whitespace as String.prototype.trim and csv-parse's trim see it
WS == {" ", "\n"}

RECURSIVE LTrim(_)
LTrim(s) ==
    IF s = <<>> THEN s
    ELSE IF Head(s) \in WS THEN LTrim(Tail(s)) ELSE s

RECURSIVE RTrim(_)
RTrim(s) ==
    IF s = <<>> THEN s
    ELSE IF s[Len(s)] \in WS THEN RTrim(SubSeq(s, 1, Len(s) - 1)) ELSE s

\* String.prototype.trim
Trim(s) == RTrim(LTrim(s))

\* value || fallback for an attribute: undefined (<<>>) and "" are falsy
OrElse(opt, fallback) ==
    IF opt = <<>> \/ opt[1] = <<>> THEN fallback ELSE opt[1]

\* JavaScript objects as pair sequences
Keys(obj) == [i \in 1..Len(obj) |-> obj[i][1]]
KeySet(obj) == {obj[i][1] : i \in 1..Len(obj)}
Has(obj, k) == k \in KeySet(obj)
Get(obj, k) == obj[CHOOSE i \in 1..Len(obj) : obj[i][1] = k][2]

----------------------------------------------------------------------------
(* The parsed HTML (what the cheerio selectors see)                        *)
(*   career document: the rows matched by '.discord-career-table tbody     *)
(*     tr', in document order; a row is the sequence of its td cells; a    *)
(*     cell is [text, sup]: its own text, followed by at most one sup      *)
(*     element [text, note], note being the data-note attribute            *)
(*     (<<>> when absent, <<value>> when present).                         *)
(*   thanks document: the '.gift-year' sections in document order; a       *)
(*     section is [title, cards]; a card is [type, number, user, item,     *)
(*     time]; each is <<>> when the attribute or element is absent;        *)
(*     time is <<[datetime, text]>>.                                       *)
(***************************************************************************)

\* a cell lookup that falls back to the row's last cell
CellAtOrLast(cells, i) == IF i < Len(cells) THEN <<cells[i + 1]>> ELSE <<cells[Len(cells)]>>

\* $(cells[i]): the i-th cell (0-based) as a selection, empty when out of range
CellAt(cells, i) == IF i < Len(cells) THEN <<cells[i + 1]>> ELSE <<>>

\* selection.find('sup')
FindSup(sel) == IF sel = <<>> THEN <<>> ELSE sel[1].sup

\* a text() that reports a missing element by a placeholder
ElemTextOrPlaceholder(sel) == IF sel = <<>> THEN <<"null">> ELSE sel[1]

\* .text() of a selection of elements that only hold text
ElemText(sel) == IF sel = <<>> THEN <<>> ELSE sel[1]

\* selection.text() of a cell: its text with the text of the nested sup
CellText(sel) ==
    IF sel = <<>> THEN <<>>
    ELSE sel[1].text \o (IF sel[1].sup = <<>> THEN <<>> ELSE sel[1].sup[1].text)

\* clone(), find('sup').remove(), text()
CellTextWithoutSup(sel) == IF sel = <<>> THEN <<>> ELSE sel[1].text

\* a name read from the cell as it stands, annotation included
serverNameWithSup(cells) == Trim(CellText(CellAt(cells, 1)))

serverNameOf(cells) ==
    LET serverCell == CellAt(cells, 1)
        sup == FindSup(serverCell)
    IN  IF Len(sup) > 0 THEN Trim(CellTextWithoutSup(serverCell))
        ELSE Trim(CellText(serverCell))

\* a note that keeps the marker and drops the detail
noteMarkerOnly(cells) ==
    LET sup == FindSup(CellAt(cells, 1))
    IN  IF Len(sup) > 0 THEN Trim(sup[1].text) ELSE <<>>

noteOf(cells) ==
    LET sup == FindSup(CellAt(cells, 1))
    IN  IF Len(sup) > 0
        THEN LET marker == Trim(sup[1].text)
                 detail == OrElse(sup[1].note, <<>>)
             IN  IF detail # <<>> THEN marker \o <<" ">> \o detail ELSE marker
        ELSE <<>>

\* an extractor that sets a field only when its cell exists
careerRecordOfCellsPresent(cells) ==
    LET keyOf == <<"no", "serverName", "category", "count", "department", "position", "job", "term">>
    IN  [i \in 1..(IF Len(cells) < 8 THEN Len(cells) ELSE 8) |-> <<keyOf[i], Trim(cells[i].text)>>]

\* the object pushed for one row
careerRecord(cells) ==
    << <<"no", Trim(CellText(CellAt(cells, 0)))>>,
       <<"serverName", serverNameOf(cells)>>,
       <<"note", noteOf(cells)>>,
       <<"category", Trim(CellText(CellAt(cells, 2)))>>,
       <<"count", Trim(CellText(CellAt(cells, 3)))>>,
       <<"department", Trim(CellText(CellAt(cells, 4)))>>,
       <<"position", Trim(CellText(CellAt(cells, 5)))>>,
       <<"job", Trim(CellText(CellAt(cells, 6)))>>,
       <<"term", Trim(CellText(CellAt(cells, 7)))>> >>

HasCells(row) == Len(row) # 0

\* an extractor that pushes a record for every row, with or without cells
extractCareerDataEveryRow(html) == [i \in 1..Len(html) |-> careerRecord(html[i])]

extractCareerData(html) ==
    LET rows == SelectSeq(html, HasCells)
    IN  [i \in 1..Len(rows) |-> careerRecord(rows[i])]

\* a card record whose type is the attribute as it stands
thanksRecordRawType(year, card) ==
    << <<"year", year>>,
       <<"type", IF card.type = <<>> THEN <<>> ELSE card.type[1]>>,
       <<"number", Trim(ElemText(card.number))>>,
       <<"user", Trim(ElemText(card.user))>>,
       <<"item", Trim(ElemText(card.item))>>,
       <<"date", OrElse(IF card.time = <<>> THEN <<>> ELSE card.time[1].datetime, <<>>)>>,
       <<"displayDate", Trim(IF card.time = <<>> THEN <<>> ELSE card.time[1].text)>> >>

\* a card record that holds the date fields only when the card has a time element
thanksRecordSparse(year, card) ==
    << <<"year", year>>,
       <<"type", OrElse(card.type, <<"unknown">>)>>,
       <<"number", Trim(ElemText(card.number))>>,
       <<"user", Trim(ElemText(card.user))>>,
       <<"item", Trim(ElemText(card.item))>> >> \o
    (IF card.time = <<>> THEN <<>>
     ELSE << <<"date", OrElse(card.time[1].datetime, <<>>)>>,
             <<"displayDate", Trim(card.time[1].text)>> >>)

\* the object pushed for one card of a section whose heading reads year
thanksRecord(year, card) ==
    << <<"year", year>>,
       <<"type", OrElse(card.type, <<"unknown">>)>>,
       <<"number", Trim(ElemText(card.number))>>,
       <<"user", Trim(ElemText(card.user))>>,
       <<"item", Trim(ElemText(card.item))>>,
       <<"date", OrElse(IF card.time = <<>> THEN <<>> ELSE card.time[1].datetime, <<>>)>>,
       <<"displayDate", Trim(IF card.time = <<>> THEN <<>> ELSE card.time[1].text)>> >>

\* the cards of a section pushed last card first
thanksOfSectionLastFirst(section) ==
    LET year == Trim(ElemText(section.title))
        n == Len(section.cards)
    IN  [j \in 1..n |-> thanksRecord(year, section.cards[n + 1 - j])]

thanksOfSection(section) ==
    LET year == Trim(ElemText(section.title))
    IN  [j \in 1..Len(section.cards) |-> thanksRecord(year, section.cards[j])]

RECURSIVE extractThanksData(_)
extractThanksData(html) ==
    IF html = <<>> THEN <<>>
    ELSE thanksOfSection(Head(html)) \o extractThanksData(Tail(html))

----------------------------------------------------------------------------
(* Record Validator.  Its argument is [isArray, rows]: a non-array (null,  *)
(* a scalar) has isArray = FALSE.                                          *)

careerRequiredKeys ==
    <<"no", "serverName", "note", "category", "count", "department", "position", "job", "term">>

thanksRequiredKeys ==
    <<"year", "type", "number", "user", "item", "date", "displayDate">>

\* a validator that looks at the first row only
FirstRowHas(rows, requiredKeys) ==
    \A k \in 1..Len(requiredKeys) : Has(rows[1], requiredKeys[k])

\* data.every(row => requiredKeys.every(key => key in row))
EveryRowHas(rows, requiredKeys) ==
    \A i \in 1..Len(rows) : \A k \in 1..Len(requiredKeys) : Has(rows[i], requiredKeys[k])

\* a validator that wants at least one record
validateCareerDataNonEmpty(d) ==
    IF ~d.isArray THEN FALSE
    ELSE IF Len(d.rows) = 0 THEN FALSE
    ELSE EveryRowHas(d.rows, careerRequiredKeys)

\* if (!Array.isArray(data)) return false; if (data.length === 0) return true;
validateCareerData(d) ==
    IF ~d.isArray THEN FALSE
    ELSE IF Len(d.rows) = 0 THEN TRUE
    ELSE EveryRowHas(d.rows, careerRequiredKeys)

validateThanksData(d) ==
    IF ~d.isArray THEN FALSE
    ELSE IF Len(d.rows) = 0 THEN TRUE
    ELSE EveryRowHas(d.rows, thanksRequiredKeys)

\* a JavaScript array as the validator's argument
Arr(rows) == [isArray |-> TRUE, rows |-> rows, js |-> "array"]

----------------------------------------------------------------------------
(* CSV codec: csv-stringify with {header: true, columns} and csv-parse     *)
(* with {columns: true, trim: true, skip_empty_lines: true}; delimiter     *)
(* ",", quote and escape '"', record delimiter "\n".                       *)

Delim == ","
Quote == "\""
NL == "\n"

RECURSIVE EscapeQuotes(_)
EscapeQuotes(v) ==
    IF v = <<>> THEN <<>>
    ELSE (IF Head(v) = Quote THEN <<Quote, Quote>> ELSE <<Head(v)>>) \o EscapeQuotes(Tail(v))

Contains(v, c) == \E i \in 1..Len(v) : v[i] = c

\* one field as csv-stringify writes it: quoted when it holds a quote, a
\* delimiter or a record delimiter, quotes doubled; an empty value is empty
StringifyField(v) ==
    IF Contains(v, Quote) \/ Contains(v, Delim) \/ Contains(v, NL)
    THEN <<Quote>> \o EscapeQuotes(v) \o <<Quote>>
    ELSE v

RECURSIVE JoinFields(_)
JoinFields(fields) ==
    IF fields = <<>> THEN <<>>
    ELSE IF Len(fields) = 1 THEN fields[1]
    ELSE fields[1] \o <<Delim>> \o JoinFields(Tail(fields))

\* the value written for column c of a row: a missing key is written empty
ColumnValue(row, c) == IF Has(row, c) THEN Get(row, c) ELSE <<>>

\* stringifier.write(row): one line, positionally by the column list
StringifyRow(row, columns) ==
    JoinFields([i \in 1..Len(columns) |-> StringifyField(ColumnValue(row, columns[i]))]) \o <<NL>>

\* the header line: the column names, each one symbol
StringifyHeader(columns) ==
    JoinFields([i \in 1..Len(columns) |-> <<columns[i]>>]) \o <<NL>>

RECURSIVE StringifyRows(_, _)
StringifyRows(rows, columns) ==
    IF rows = <<>> THEN <<>>
    ELSE StringifyRow(Head(rows), columns) \o StringifyRows(Tail(rows), columns)

\* a column list taken from the last record
ColumnsOfLast(rows) == Keys(rows[Len(rows)])

\* columns = Object.keys(data[0])
ColumnsOf(rows) == Keys(rows[1])

\* a stringifier created without header: true
StringifyNoHeader(rows) == StringifyRows(rows, ColumnsOf(rows))

\* everything the stringifier hands to the write stream for a non-empty array
Stringify(rows) ==
    StringifyHeader(ColumnsOf(rows)) \o StringifyRows(rows, ColumnsOf(rows))

\* csv-parse: the parser state before the first character
ParseStart ==
    [quoting |-> FALSE, wasQuoting |-> FALSE, escaping |-> FALSE,
     field |-> <<>>, record |-> <<>>, records |-> <<>>, error |-> FALSE]

\* __onField: an unquoted field is right-trimmed, then pushed
OnField(st) ==
    [st EXCEPT !.record = Append(st.record, IF st.wasQuoting THEN st.field ELSE RTrim(st.field)),
               !.field = <<>>, !.wasQuoting = FALSE]

\* __onRecord
OnRecord(st) == [st EXCEPT !.records = Append(st.records, st.record), !.record = <<>>]

\* a character that reaches the end of the loop body is appended or trimmed
AppendChar(st, chr) ==
    LET lappend == st.quoting \/ st.field # <<>> \/ chr \notin WS
        rappend == ~st.wasQuoting
    IN  IF lappend /\ rappend THEN [st EXCEPT !.field = Append(st.field, chr)]
        ELSE IF chr \notin WS THEN [st EXCEPT !.error = TRUE]
        ELSE st

\* one iteration of the parser loop on text[pos]
ParseChar(st, text, pos) ==
    LET chr == text[pos]
        hasNext == pos < Len(text)
        nextChr == IF hasNext THEN text[pos + 1] ELSE ""
    IN  IF st.escaping THEN AppendChar([st EXCEPT !.escaping = FALSE], chr)
        ELSE IF st.quoting /\ chr = Quote /\ hasNext /\ nextChr = Quote
             THEN [st EXCEPT !.escaping = TRUE]
        ELSE IF chr = Quote /\ st.quoting
             THEN IF ~hasNext \/ nextChr = Delim \/ nextChr = NL \/ nextChr \in WS
                  THEN [st EXCEPT !.quoting = FALSE, !.wasQuoting = TRUE]
                  ELSE [st EXCEPT !.error = TRUE]
        ELSE IF chr = Quote
             THEN IF st.field # <<>> THEN [st EXCEPT !.error = TRUE]
                  ELSE [st EXCEPT !.quoting = TRUE]
        ELSE IF ~st.quoting /\ chr = NL
             THEN IF ~st.wasQuoting /\ st.record = <<>> /\ st.field = <<>>
                  THEN st
                  ELSE OnRecord(OnField(st))
        ELSE IF ~st.quoting /\ chr = Delim THEN OnField(st)
        ELSE AppendChar(st, chr)

RECURSIVE ParseFrom(_, _, _)
ParseFrom(st, text, pos) ==
    IF st.error THEN st
    ELSE IF pos > Len(text)
         THEN IF st.quoting THEN [st EXCEPT !.error = TRUE]
              ELSE IF st.wasQuoting \/ st.record # <<>> \/ st.field # <<>>
                   THEN OnRecord(OnField(st))
                   ELSE st
    ELSE ParseFrom(ParseChar(st, text, pos), text, pos + 1)

\* the raw records of a text: [error, records]
ParseRaw(text) == ParseFrom(ParseStart, text, 1)

\* the name of a header field; the column names the codec writes are one symbol
ColumnName(field) == IF Len(field) = 1 THEN field[1] ELSE ""

\* columns: true: the first record names the columns, every later record
\* becomes an object in header order; a record of another length is an error
ParseCSV(text) ==
    LET raw == ParseRaw(text)
        n == Len(raw.records)
        header == raw.records[1]
    IN  IF raw.error THEN [error |-> TRUE, rows |-> <<>>]
        ELSE IF n = 0 THEN [error |-> FALSE, rows |-> <<>>]
        ELSE IF \E i \in 2..n : Len(raw.records[i]) # Len(header)
             THEN [error |-> TRUE, rows |-> <<>>]
        ELSE [error |-> FALSE,
              rows |-> [i \in 1..(n - 1) |->
                          [c \in 1..Len(header) |->
                              <<ColumnName(header[c]), raw.records[i + 1][c]>>]]]

----------------------------------------------------------------------------
(* Bounded inputs *)

SeqsUpTo(S, n) == UNION {[1..k -> S] : k \in 0..n}

\* sequences over Fill of length at most n, and those with one element
\* replaced by an element of Pool
SeqsWithOne(Fill, Pool, n) ==
    SeqsUpTo(Fill, n) \cup
    UNION { {[s EXCEPT ![i] = p] : i \in 1..Len(s), p \in Pool} : s \in SeqsUpTo(Fill, n) }

\* texts of cells and elements
Texts == { <<"a">>, <<" ", "a", " ">> }

NoSup == <<>>
Sup(text, note) == <<[text |-> text, note |-> note]>>
Cell(text, sup) == [text |-> text, sup |-> sup]

\* the sup elements of a name cell: marker with a detail, with a detail
\* ending in a blank, without the attribute, with an empty attribute, and
\* an empty marker with a detail
Sups ==
    { NoSup,
      Sup(<<"m">>, <<<<"d">>>>),
      Sup(<<"m">>, <<<<"d", " ">>>>),
      Sup(<<" ", "m">>, <<>>),
      Sup(<<"m">>, <<<<>>>>),
      Sup(<<>>, <<<<"d">>>>) }

\* the cells read by extractCareerData: cells[0] .. cells[7]
NumCells == 8

\* a row of n cells holding text t, its name cell (when there is one) with sup s
MkRow(n, t, s) == [i \in 1..n |-> Cell(t, IF i = 2 THEN s ELSE NoSup)]

RowPool == {MkRow(n, t, s) : n \in 0..(NumCells + 1), t \in Texts, s \in Sups}

\* a row without cells, a full row with an annotation, a short row
FillRows ==
    { MkRow(0, <<"a">>, NoSup),
      MkRow(NumCells, <<"a">>, Sup(<<"m">>, <<<<",">>>>)),
      MkRow(3, <<" ", "a", " ">>, NoSup) }

CareerDocs == SeqsWithOne(FillRows, RowPool, MaxRows)

Card(type, number, user, item, time) ==
    [type |-> type, number |-> number, user |-> user, item |-> item, time |-> time]

Time(datetime, text) == <<[datetime |-> datetime, text |-> text]>>

FullCard == Card(<<<<"t">>>>, <<<<"a">>>>, <<<<"a">>>>, <<<<",">>>>, Time(<<<<"d">>>>, <<"a">>))
BareCard == Card(<<>>, <<>>, <<>>, <<>>, <<>>)

\* cards that differ from the full card in one place
CardPool ==
    {[FullCard EXCEPT !.type = x] : x \in {<<>>, <<<<>>>>, <<<<" ", "t">>>>}} \cup
    {[FullCard EXCEPT !.number = x] : x \in {<<>>, <<<<" ", "a", " ">>>>}} \cup
    {[FullCard EXCEPT !.user = x] : x \in {<<>>, <<<<" ", "a", " ">>>>}} \cup
    {[FullCard EXCEPT !.item = x] : x \in {<<>>, <<<<" ", "a", " ">>>>}} \cup
    {[FullCard EXCEPT !.time = x] :
        x \in {<<>>, Time(<<>>, <<"a">>), Time(<<<<>>>>, <<"a">>), Time(<<<<"d", " ">>>>, <<" ", "a", " ">>)}}

Section(title, cards) == [title |-> title, cards |-> cards]

Titles == { <<<<"y">>>>, <<<<" ", "z", " ">>>>, <<>> }

FillSections == { Section(<<<<"y">>>>, <<FullCard>>), Section(<<<<"z">>>>, <<>>) }

SectionPool ==
    {Section(t, cs) : t \in Titles, cs \in SeqsWithOne({FullCard, BareCard}, CardPool, MaxRows)}

ThanksDocs == SeqsWithOne(FillSections, SectionPool, MaxGroups)

\* values of the records handed to the codec
Values ==
    { <<>>, <<"a">>, <<"a", " ", "b">>, <<" ", "a">>, <<"a", " ">>, <<" ">>,
      <<"a", ",", "b">>, <<"a", "\"", "b">>, <<"a", "\n", "b">>, <<"\"">> }

\* a record with the given keys: the first key holds v, the others hold w
MkRecord(keys, v, w) == [i \in 1..Len(keys) |-> <<keys[i], IF i = 1 THEN v ELSE w>>]

RecordsOf(keys) == {MkRecord(keys, v, w) : v \in Values, w \in {<<>>, <<"a">>}}

RecordSeqs == SeqsUpTo(RecordsOf(careerRequiredKeys), MaxRecs) \cup SeqsUpTo(RecordsOf(thanksRequiredKeys), MaxRecs)

\* obj without its i-th key
DropKey(obj, i) == SubSeq(obj, 1, i - 1) \o SubSeq(obj, i + 1, Len(obj))

\* objects that lack keys: a record without one of its keys, and the
\* object {no, serverName} of the test suite
PartialObjects ==
    {DropKey(MkRecord(careerRequiredKeys, v, v), i) : v \in {<<>>, <<"a">>}, i \in 1..Len(careerRequiredKeys)} \cup
    {DropKey(MkRecord(thanksRequiredKeys, v, v), i) : v \in {<<>>, <<"a">>}, i \in 1..Len(thanksRequiredKeys)} \cup
    { << <<"no", <<"a">>>>, <<"serverName", <<"a">>>> >> }

WholeObjects ==
    {MkRecord(careerRequiredKeys, v, v) : v \in {<<>>, <<"a">>}} \cup
    {MkRecord(thanksRequiredKeys, v, v) : v \in {<<>>, <<"a">>}}

\* what a caller may hand to a validator or to saveToCSV besides arrays:
\* null, a number, a non-empty string
NonArrays == { [isArray |-> FALSE, rows |-> <<>>, js |-> t] : t \in {"null", "number", "string"} }

\* arrays for the validators: whole objects with at most one partial object
ValidatorArrays == SeqsWithOne(WholeObjects, PartialObjects, MaxRecs)

----------------------------------------------------------------------------
(* Library calls: a caller (the test suite, a tool) that holds an input    *)
(* and calls the exported functions of data-manager.js on it.  The file    *)
(* system of these calls is reliable; write failures are modelled in the   *)
(* run of main() below.                                                    *)

NoData == [isArray |-> FALSE, rows |-> <<>>, js |-> "undefined"]
NotLoaded == [state |-> "none", error |-> "none", rows |-> <<>>]

LibInputs ==
    {[kind |-> "careerHtml", value |-> d] : d \in CareerDocs} \cup
    {[kind |-> "thanksHtml", value |-> d] : d \in ThanksDocs} \cup
    {[kind |-> "data", value |-> Arr(r)] : r \in RecordSeqs \cup ValidatorArrays} \cup
    {[kind |-> "data", value |-> d] : d \in NonArrays}

LastCall == IF calls = <<>> THEN "none" ELSE calls[Len(calls)]

\* no thanks page in the specifications of the extraction tools
UiIdle ==
    /\ uiCards = <<>>
    /\ uiFilter = "none"
    /\ uiTimers = <<>>
    /\ reduceMotion = FALSE
    /\ selections = 0

\* no run of main() in the library specification
OrchIdle ==
    /\ pc = [ds |-> "none", at |-> "idle"]
    /\ src = [d \in {"career", "thanks"} |-> <<>>]
    /\ csv = [d \in {"career", "thanks"} |-> <<>>]
    /\ preCsv = csv
    /\ data = [d \in {"career", "thanks"} |-> <<>>]
    /\ validated = [d \in {"career", "thanks"} |-> "none"]
    /\ stream = "none"
    /\ pending = <<>>
    /\ log = <<>>
    /\ exitCode = -1

InitLib ==
    /\ OrchIdle
    /\ UiIdle
    /\ arg \in LibInputs
    /\ calls = <<>>
    /\ cur = IF arg.kind = "data" THEN arg.value ELSE NoData
    /\ valid = "none"
    /\ tmpFile = <<>>
    /\ saved = "none"
    /\ loaded = NotLoaded

CallExtractCareerData ==
    /\ calls = <<>>
    /\ arg.kind = "careerHtml"
    /\ cur' = Arr(extractCareerData(arg.value))
    /\ calls' = Append(calls, "extractCareerData")
    /\ UNCHANGED <<arg, valid, tmpFile, saved, loaded>>
    /\ UNCHANGED <<orchVars, uiVars>>

CallExtractThanksData ==
    /\ calls = <<>>
    /\ arg.kind = "thanksHtml"
    /\ cur' = Arr(extractThanksData(arg.value))
    /\ calls' = Append(calls, "extractThanksData")
    /\ UNCHANGED <<arg, valid, tmpFile, saved, loaded>>
    /\ UNCHANGED <<orchVars, uiVars>>

BoolStr(b) == IF b THEN "true" ELSE "false"

CallValidateCareerData ==
    /\ \/ calls = <<>> /\ arg.kind = "data"
       \/ calls = <<"extractCareerData">>
    /\ valid' = BoolStr(validateCareerData(cur))
    /\ calls' = Append(calls, "validateCareerData")
    /\ UNCHANGED <<arg, cur, tmpFile, saved, loaded>>
    /\ UNCHANGED <<orchVars, uiVars>>

CallValidateThanksData ==
    /\ \/ calls = <<>> /\ arg.kind = "data"
       \/ calls = <<"extractThanksData">>
    /\ valid' = BoolStr(validateThanksData(cur))
    /\ calls' = Append(calls, "validateThanksData")
    /\ UNCHANGED <<arg, cur, tmpFile, saved, loaded>>
    /\ UNCHANGED <<orchVars, uiVars>>

\* if (!data || data.length === 0) return resolve()
NothingToSave(d) == d.js = "null" \/ (d.isArray /\ Len(d.rows) = 0)

\* a saveToCSV that opens its write stream before it looks at the data
saveToCSVOpensFirst(d, file) ==
    IF d.isArray /\ Len(d.rows) > 0 THEN <<Stringify(d.rows)>> ELSE <<<<>>>>

\* the file after saveToCSV(data, filePath) on a reliable file system:
\* untouched for null or an empty array, replaced for a non-empty array.
\* For a number Object.keys(data[0]) throws before the write stream is
\* created, so the file is untouched; for a non-empty string the write
\* stream is created, then data.forEach throws, and the file is left empty
saveToCSV(d, file) ==
    IF NothingToSave(d) THEN file
    ELSE IF d.isArray THEN <<Stringify(d.rows)>>
    ELSE IF d.js = "string" THEN <<<<>>>>
    ELSE file

\* how the promise of saveToCSV(data, filePath) settles
saveToCSVSettles(d) ==
    IF NothingToSave(d) \/ d.isArray THEN "resolved" ELSE "rejected"

CallSaveToCSV ==
    /\ \/ calls = <<>> /\ arg.kind = "data"
       \/ calls \in {<<"extractCareerData">>, <<"extractThanksData">>}
    /\ tmpFile' = saveToCSV(cur, tmpFile)
    /\ saved' = saveToCSVSettles(cur)
    /\ calls' = Append(calls, "saveToCSV")
    /\ UNCHANGED <<arg, cur, valid, loaded>>
    /\ UNCHANGED <<orchVars, uiVars>>

\* a loadFromCSV that reads a missing file as a file without records
loadFromCSVLenient(file) ==
    IF file = <<>> THEN [state |-> "resolved", error |-> "none", rows |-> <<>>]
    ELSE LET p == ParseCSV(file[1])
         IN  IF p.error THEN [state |-> "rejected", error |-> "parse", rows |-> <<>>]
             ELSE [state |-> "resolved", error |-> "none", rows |-> p.rows]

\* loadFromCSV(filePath): rejects with a file-not-found error when the
\* file does not exist and with the parser's error when the parser reports
\* one, resolves with the parsed records otherwise
loadFromCSV(file) ==
    IF file = <<>> THEN [state |-> "rejected", error |-> "notFound", rows |-> <<>>]
    ELSE LET p == ParseCSV(file[1])
         IN  IF p.error THEN [state |-> "rejected", error |-> "parse", rows |-> <<>>]
             ELSE [state |-> "resolved", error |-> "none", rows |-> p.rows]

CallLoadFromCSV ==
    /\ LastCall \in {"none", "saveToCSV"}
    /\ loaded' = loadFromCSV(tmpFile)
    /\ calls' = Append(calls, "loadFromCSV")
    /\ UNCHANGED <<arg, cur, valid, tmpFile, saved>>
    /\ UNCHANGED <<orchVars, uiVars>>

NextLib ==
    \/ CallExtractCareerData
    \/ CallExtractThanksData
    \/ CallValidateCareerData
    \/ CallValidateThanksData
    \/ CallSaveToCSV
    \/ CallLoadFromCSV

SpecLib == InitLib /\ [][NextLib]_vars

----------------------------------------------------------------------------
(* The extraction script: main() run once, from the first statement to the *)
(* end of the process.  pc = [ds, at]: the dataset being processed and the *)
(* statement that runs next.  The source files and the previous output     *)
(* files are the environment, chosen in Init; a write stream may report an *)
(* error after any part of the text reached the file.                      *)

Datasets == {"career", "thanks"}

At(d, a) == [ds |-> d, at |-> a]
AtEnd == [ds |-> "none", at |-> "end"]
Exited == [ds |-> "none", at |-> "exited"]

\* a line of console output: the start message, a dataset's success with
\* its record count, a dataset's validation failure, or the caught error
LogEntry(type, d, count, err) == [type |-> type, ds |-> d, count |-> count, error |-> err]

\* what follows a dataset's pipeline in main()
AfterPipeline(d) == IF d = "career" THEN At("thanks", "read") ELSE AtEnd

requiredKeysOf(d) == IF d = "career" THEN careerRequiredKeys ELSE thanksRequiredKeys

extractOf(d, html) == IF d = "career" THEN extractCareerData(html) ELSE extractThanksData(html)

validateOf(d, x) == IF d = "career" THEN validateCareerData(x) ELSE validateThanksData(x)

\* the documents the run reads
OrchDocs(d) ==
    IF d = "career" THEN SeqsUpTo(FillRows, MaxRows) ELSE SeqsUpTo(FillSections, MaxGroups)

\* the output of an earlier run, still on disk
StaleCsv(d) == Stringify(<<MkRecord(requiredKeysOf(d), <<"o">>, <<"o">>)>>)

\* a source file is unreadable or holds a document
SourceFiles(d) == {<<>>} \cup {<<doc>> : doc \in OrchDocs(d)}

\* an output file is absent or holds the output of an earlier run
OutputFiles(d) == {<<>>, <<StaleCsv(d)>>}

Init ==
    /\ pc = At("career", "read")
    /\ \E c \in SourceFiles("career"), t \in SourceFiles("thanks") :
          src = [d \in Datasets |-> IF d = "career" THEN c ELSE t]
    /\ \E c \in OutputFiles("career"), t \in OutputFiles("thanks") :
          csv = [d \in Datasets |-> IF d = "career" THEN c ELSE t]
    /\ preCsv = csv
    /\ data = [d \in Datasets |-> <<>>]
    /\ validated = [d \in Datasets |-> "none"]
    /\ stream = "none"
    /\ pending = <<>>
    /\ log = <<LogEntry("start", "none", 0, "none")>>
    /\ exitCode = -1
    /\ calls = <<>>
    /\ arg = [kind |-> "none", value |-> <<>>]
    /\ cur = NoData
    /\ valid = "none"
    /\ tmpFile = <<>>
    /\ saved = "none"
    /\ loaded = NotLoaded
    /\ UiIdle

\* a catch block that reports the error and lets the process end by itself
FatalWithoutExit(err) ==
    /\ log' = Append(log, LogEntry("fatal", pc.ds, 0, err))
    /\ exitCode' = 0
    /\ pc' = Exited

\* catch (error) { console.error(..., error); process.exit(1); }
Fatal(err) ==
    /\ log' = Append(log, LogEntry("fatal", pc.ds, 0, err))
    /\ exitCode' = 1
    /\ pc' = Exited

\* a read failure that is reported and skips to the next dataset
ReadSourceIsolated(d) ==
    /\ pc = At(d, "read")
    /\ IF src[d] = <<>>
       THEN /\ log' = Append(log, LogEntry("fatal", d, 0, "read"))
            /\ pc' = AfterPipeline(d)
            /\ exitCode' = exitCode
       ELSE pc' = At(d, "extract") /\ UNCHANGED <<log, exitCode>>
    /\ UNCHANGED <<src, csv, preCsv, data, validated, stream, pending>>
    /\ UNCHANGED <<libVars, uiVars>>

\* a read failure after which the outputs of the run are put back
ReadSourceRollback(d) ==
    /\ pc = At(d, "read")
    /\ IF src[d] = <<>>
       THEN Fatal("read") /\ csv' = preCsv
       ELSE pc' = At(d, "extract") /\ UNCHANGED <<log, exitCode, csv>>
    /\ UNCHANGED <<src, preCsv, data, validated, stream, pending>>
    /\ UNCHANGED <<libVars, uiVars>>

\* fs.readFileSync(htmlPath, 'utf8'): throws when the file cannot be read
ReadSource(d) ==
    /\ pc = At(d, "read")
    /\ IF src[d] = <<>>
       THEN Fatal("read")
       ELSE pc' = At(d, "extract") /\ UNCHANGED <<log, exitCode>>
    /\ UNCHANGED <<src, csv, preCsv, data, validated, stream, pending>>
    /\ UNCHANGED <<libVars, uiVars>>

\* an extraction whose result is saved without asking the validator
ExtractThenSave(d) ==
    /\ pc = At(d, "extract")
    /\ data' = [data EXCEPT ![d] = <<Arr(extractOf(d, src[d][1]))>>]
    /\ pc' = At(d, "save")
    /\ UNCHANGED <<src, csv, preCsv, validated, stream, pending, log, exitCode>>
    /\ UNCHANGED <<libVars, uiVars>>

\* const careerData = extractCareerData(careerHtml) (thanks likewise)
Extract(d) ==
    /\ pc = At(d, "extract")
    /\ data' = [data EXCEPT ![d] = <<Arr(extractOf(d, src[d][1]))>>]
    /\ pc' = At(d, "validate")
    /\ UNCHANGED <<src, csv, preCsv, validated, stream, pending, log, exitCode>>
    /\ UNCHANGED <<libVars, uiVars>>

\* if (validateCareerData(careerData)) { ... } else { console.error(...) }
Validate(d) ==
    /\ pc = At(d, "validate")
    /\ LET ok == validateOf(d, data[d][1])
       IN  /\ validated' = [validated EXCEPT ![d] = BoolStr(ok)]
           /\ IF ok
              THEN pc' = At(d, "save") /\ log' = log
              ELSE /\ pc' = AfterPipeline(d)
                   /\ log' = Append(log, LogEntry("invalid", d, 0, "none"))
    /\ UNCHANGED <<src, csv, preCsv, data, stream, pending, exitCode>>
    /\ UNCHANGED <<libVars, uiVars>>

\* a saveToCSV whose promise is not awaited: main() goes on while the
\* write stream is open
SaveInBackground(d) ==
    /\ pc = At(d, "save")
    /\ pc' = At(d, "report")
    /\ stream' = IF Len(data[d][1].rows) = 0 THEN stream ELSE d
    /\ pending' = IF Len(data[d][1].rows) = 0 THEN pending ELSE <<Stringify(data[d][1].rows)>>
    /\ UNCHANGED <<src, csv, preCsv, data, validated, log, exitCode>>
    /\ UNCHANGED <<libVars, uiVars>>

\* await saveToCSV(data, csvPath): the promise resolves at once for an empty
\* array; otherwise the write stream is opened, every row is written to the
\* stringifier piped to it, and main() waits for the stream
Save(d) ==
    /\ pc = At(d, "save")
    /\ IF Len(data[d][1].rows) = 0
       THEN pc' = At(d, "report") /\ UNCHANGED <<stream, pending>>
       ELSE /\ pc' = At(d, "await")
            /\ stream' = d
            /\ pending' = <<Stringify(data[d][1].rows)>>
    /\ UNCHANGED <<src, csv, preCsv, data, validated, log, exitCode>>
    /\ UNCHANGED <<libVars, uiVars>>

\* a write stream opened in append mode
WriteFinishAppend(d) ==
    /\ pc = At(d, "await")
    /\ stream = d
    /\ csv' = [csv EXCEPT ![d] =
                  <<(IF csv[d] = <<>> THEN <<>> ELSE csv[d][1]) \o pending[1]>>]
    /\ stream' = "none"
    /\ pending' = <<>>
    /\ pc' = At(d, "report")
    /\ UNCHANGED <<src, preCsv, data, validated, log, exitCode>>
    /\ UNCHANGED <<libVars, uiVars>>

\* both datasets written to one path, the career output
WriteFinishSharedPath(d) ==
    /\ pc = At(d, "await")
    /\ stream = d
    /\ csv' = [csv EXCEPT !["career"] = pending]
    /\ stream' = "none"
    /\ pending' = <<>>
    /\ pc' = At(d, "report")
    /\ UNCHANGED <<src, preCsv, data, validated, log, exitCode>>
    /\ UNCHANGED <<libVars, uiVars>>

\* writableStream 'finish': the whole text is in the file, the promise resolves
WriteFinish(d) ==
    /\ pc = At(d, "await")
    /\ stream = d
    /\ csv' = [csv EXCEPT ![d] = pending]
    /\ stream' = "none"
    /\ pending' = <<>>
    /\ pc' = At(d, "report")
    /\ UNCHANGED <<src, preCsv, data, validated, log, exitCode>>
    /\ UNCHANGED <<libVars, uiVars>>

\* the file after a write stream error: untouched when the open failed,
\* otherwise truncated and holding the part of the text written so far
FilesAfterError(text, file) == {file} \cup {<<SubSeq(text, 1, n)>> : n \in 0..Len(text)}

\* a stream error after which the promise resolves
WriteErrorSwallowed(d) ==
    /\ pc = At(d, "await")
    /\ stream = d
    /\ \E f \in FilesAfterError(pending[1], csv[d]) : csv' = [csv EXCEPT ![d] = f]
    /\ stream' = "none"
    /\ pending' = <<>>
    /\ pc' = At(d, "report")
    /\ UNCHANGED <<src, preCsv, data, validated, log, exitCode>>
    /\ UNCHANGED <<libVars, uiVars>>

\* a stream error nobody listens to: the promise never settles
WriteErrorUnhandled(d) ==
    /\ pc = At(d, "await")
    /\ stream = d
    /\ \E f \in FilesAfterError(pending[1], csv[d]) : csv' = [csv EXCEPT ![d] = f]
    /\ stream' = "none"
    /\ pending' = <<>>
    /\ UNCHANGED <<pc, src, preCsv, data, validated, log, exitCode>>
    /\ UNCHANGED <<libVars, uiVars>>

\* writableStream 'error': the promise rejects and main() ends in its catch
WriteError(d) ==
    /\ pc = At(d, "await")
    /\ stream = d
    /\ \E f \in FilesAfterError(pending[1], csv[d]) : csv' = [csv EXCEPT ![d] = f]
    /\ stream' = "none"
    /\ pending' = <<>>
    /\ Fatal("write")
    /\ UNCHANGED <<src, preCsv, data, validated>>
    /\ UNCHANGED <<libVars, uiVars>>

\* console.log(`[success] ... (${data.length} records)`)
Report(d) ==
    /\ pc = At(d, "report")
    /\ log' = Append(log, LogEntry("success", d, Len(data[d][1].rows), "none"))
    /\ pc' = AfterPipeline(d)
    /\ UNCHANGED <<src, csv, preCsv, data, validated, stream, pending, exitCode>>
    /\ UNCHANGED <<libVars, uiVars>>

\* main() returned without an error: the process ends with status 0
ProcessEnd ==
    /\ pc = AtEnd
    /\ exitCode' = 0
    /\ pc' = Exited
    /\ UNCHANGED <<src, csv, preCsv, data, validated, stream, pending, log>>
    /\ UNCHANGED <<libVars, uiVars>>

Next ==
    \/ \E d \in Datasets : ReadSource(d)
    \/ \E d \in Datasets : Extract(d)
    \/ \E d \in Datasets : Validate(d)
    \/ \E d \in Datasets : Save(d)
    \/ \E d \in Datasets : WriteFinish(d)
    \/ \E d \in Datasets : WriteError(d)
    \/ \E d \in Datasets : Report(d)
    \/ ProcessEnd

Spec == Init /\ [][Next]_vars

\* the run under a scheduler that goes on while a step is possible: the
\* event loop runs the next statement of main(), and an open write stream
\* emits 'finish' or 'error'
SpecFair == Init /\ [][Next]_vars /\ WF_vars(Next)

----------------------------------------------------------------------------
(* The thanks page: ThanksManager's gift filter (assets/js/thanks.js).     *)
(* The user selects filter tabs; applyFilter shows the cards of the filter *)
(* and hides the others, at once under reduced motion, otherwise through a *)
(* 300 ms timer per card.  All timers have the same delay, so they fire in *)
(* the order they were started; a selection may come between any two.      *)

\* filter selections in a run
MaxSelections == 3
\* gift cards on the page
MaxCards == 2

\* String.prototype.toLowerCase on the type and filter names in use
Lower(t) == IF t = "Nitro" THEN "nitro" ELSE IF t = "Banner" THEN "banner" ELSE t

\* the data-type values of the rendered cards
CardTypes == {"nitro", "Banner", "etc"}

\* the data-filter attributes of the tabs: <<>> for a tab without one
TabFilters == {<<>>, <<"all">>, <<"Nitro">>, <<"banner">>}

\* a card as renderData creates it: shown, no inline display, not hiding
RenderedCard(type) == [type |-> type, hidden |-> FALSE, display |-> "", hiding |-> FALSE]

\* no extraction run and no library call in the specification of the page
LibIdle ==
    /\ calls = <<>>
    /\ arg = [kind |-> "none", value |-> <<>>]
    /\ cur = NoData
    /\ valid = "none"
    /\ tmpFile = <<>>
    /\ saved = "none"
    /\ loaded = NotLoaded

InitThanks ==
    /\ OrchIdle
    /\ LibIdle
    /\ \E n \in 1..MaxCards : \E types \in [1..n -> CardTypes] :
          uiCards = [i \in 1..n |-> RenderedCard(types[i])]
    /\ uiFilter = "none"
    /\ uiTimers = <<>>
    /\ reduceMotion \in BOOLEAN
    /\ selections = 0

\* const show = f === 'all' || type === f
Shows(f, card) == f = "all" \/ Lower(card.type) = f

\* the body of applyFilter's forEach for one card, its timer apart
CardAfterFilter(f, card, reduce) ==
    IF Shows(f, card)
    THEN IF card.hidden \/ card.display = "none"
         THEN [card EXCEPT !.hidden = FALSE, !.display = "", !.hiding = FALSE]
         ELSE card
    ELSE IF ~card.hidden
         THEN IF reduce THEN [card EXCEPT !.hidden = TRUE, !.display = "none"]
              ELSE [card EXCEPT !.hiding = TRUE]
         ELSE card

\* whether applyFilter starts a hide timer for the card
StartsTimer(f, card, reduce) == ~Shows(f, card) /\ ~card.hidden /\ ~reduce

\* the timers applyFilter starts, in the order of the cards
RECURSIVE NewTimers(_, _, _, _)
NewTimers(f, cards, reduce, i) ==
    IF i > Len(cards) THEN <<>>
    ELSE (IF StartsTimer(f, cards[i], reduce) THEN <<i>> ELSE <<>>)
         \o NewTimers(f, cards, reduce, i + 1)

\* newTab.dataset.filter || 'all', then (filter || 'all').toLowerCase()
FilterOf(tab) == Lower(IF tab = <<>> THEN "all" ELSE IF tab[1] = "" THEN "all" ELSE tab[1])

\* setActiveTab(newTab): applyFilter(newTab.dataset.filter || 'all')
SetActiveTab(tab) ==
    /\ selections < MaxSelections
    /\ LET f == FilterOf(tab)
       IN  /\ uiCards' = [i \in 1..Len(uiCards) |-> CardAfterFilter(f, uiCards[i], reduceMotion)]
           /\ uiTimers' = uiTimers \o NewTimers(f, uiCards, reduceMotion, 1)
           /\ uiFilter' = f
    /\ selections' = selections + 1
    /\ UNCHANGED reduceMotion
    /\ UNCHANGED <<orchVars, libVars>>

\* finish(): the oldest timer fires and hides its card if it is still hiding
TimerFires ==
    /\ uiTimers # <<>>
    /\ LET c == Head(uiTimers)
       IN  uiCards' = [uiCards EXCEPT ![c] =
                          IF uiCards[c].hiding
                          THEN [uiCards[c] EXCEPT !.hidden = TRUE, !.display = "none", !.hiding = FALSE]
                          ELSE uiCards[c]]
    /\ uiTimers' = Tail(uiTimers)
    /\ UNCHANGED <<uiFilter, reduceMotion, selections>>
    /\ UNCHANGED <<orchVars, libVars>>

NextThanks ==
    \/ \E tab \in TabFilters : SetActiveTab(tab)
    \/ TimerFires

SpecThanks == InitThanks /\ [][NextThanks]_vars

----------------------------------------------------------------------------
(* Properties of the library calls (specification SpecLib) *)

SameRecords(a, b) ==
    /\ Len(a) = Len(b)
    /\ \A i \in 1..Len(b) :
          /\ KeySet(a[i]) = KeySet(b[i])
          /\ \A k \in KeySet(b[i]) : Get(a[i], k) = Get(b[i], k)

\* every record has the key list of one kind, in its order
SingleKind(rows) ==
    \E keys \in {careerRequiredKeys, thanksRequiredKeys} :
        \A i \in 1..Len(rows) : Keys(rows[i]) = keys

AllValues(rows, P(_)) == \A i \in 1..Len(rows) : \A j \in 1..Len(rows[i]) : P(rows[i][j][2])

\* plain text: no character that CSV quoting gives a meaning to
PlainText(v) == ~Contains(v, Quote) /\ ~Contains(v, Delim) /\ ~Contains(v, NL)

NoEdgeWhitespace(v) == v = <<>> \/ (v[1] \notin WS /\ v[Len(v)] \notin WS)

PlainTrimmed(v) == PlainText(v) /\ NoEdgeWhitespace(v)

SavedThenLoaded ==
    /\ calls = <<"saveToCSV", "loadFromCSV">>
    /\ cur.isArray
    /\ Len(cur.rows) > 0
    /\ SingleKind(cur.rows)

\* C1 as stated: saveToCSV then loadFromCSV returns every non-empty
\* single-kind sequence of plain-text records field for field.
C1_RoundTripPlainText ==
    (SavedThenLoaded /\ AllValues(cur.rows, PlainText))
        => (loaded.state = "resolved" /\ SameRecords(loaded.rows, cur.rows))

\* C1 amended: saveToCSV then loadFromCSV returns every non-empty
\* single-kind sequence of records whose values are plain text without
\* leading or trailing whitespace: same length, same order, same keys, same
\* value for every key.
C1_RoundTripTrimmed ==
    (SavedThenLoaded /\ AllValues(cur.rows, PlainTrimmed))
        => (loaded.state = "resolved" /\ SameRecords(loaded.rows, cur.rows))

C1_Witness ==
    /\ SavedThenLoaded
    /\ AllValues(cur.rows, PlainTrimmed)
    /\ Len(cur.rows) = 2
    /\ cur.rows[1] # cur.rows[2]
    /\ Keys(cur.rows[1]) = careerRequiredKeys
    /\ Get(cur.rows[1], "no") = <<"a", " ", "b">>
    /\ loaded.state = "resolved"
    /\ Len(loaded.rows) = 2

\* C9: every record sequence an extractor produces passes the validator of
\* its own kind, for every HTML input.
C9_ExtractedIsValid ==
    /\ calls = <<"extractCareerData", "validateCareerData">> => valid = "true"
    /\ calls = <<"extractThanksData", "validateThanksData">> => valid = "true"

\* a table with a row of fewer than eight cells was extracted and validated
C9_Witness ==
    /\ calls = <<"extractCareerData", "validateCareerData">>
    /\ \E i \in 1..Len(arg.value) : Len(arg.value[i]) \in 1..7
    /\ Len(cur.rows) = 2
    /\ valid = "true"

LacksKey(rows, requiredKeys) ==
    \E i \in 1..Len(rows) : \E k \in 1..Len(requiredKeys) : ~Has(rows[i], requiredKeys[k])

IsEmptyString(v) == v = <<>>

\* C10: a validator answers false for a non-array (null, a scalar) and for
\* an array in which some record lacks a required key, whatever the other
\* records hold; records that hold every required key with empty-string
\* values are not rejected.
C10_ValidatorRejects ==
    /\ (calls = <<"validateCareerData">> /\ ~cur.isArray) => valid = "false"
    /\ (calls = <<"validateThanksData">> /\ ~cur.isArray) => valid = "false"
    /\ (calls = <<"validateCareerData">> /\ cur.isArray /\ LacksKey(cur.rows, careerRequiredKeys))
          => valid = "false"
    /\ (calls = <<"validateThanksData">> /\ cur.isArray /\ LacksKey(cur.rows, thanksRequiredKeys))
          => valid = "false"
    /\ (calls = <<"validateCareerData">> /\ cur.isArray /\ ~LacksKey(cur.rows, careerRequiredKeys)
            /\ AllValues(cur.rows, IsEmptyString))
          => valid = "true"
    /\ (calls = <<"validateThanksData">> /\ cur.isArray /\ ~LacksKey(cur.rows, thanksRequiredKeys)
            /\ AllValues(cur.rows, IsEmptyString))
          => valid = "true"

\* a two-record array whose first record is whole and whose second lacks a
\* key was rejected
C10_Witness ==
    /\ calls = <<"validateCareerData">>
    /\ cur.isArray
    /\ Len(cur.rows) = 2
    /\ ~LacksKey(<<cur.rows[1]>>, careerRequiredKeys)
    /\ LacksKey(<<cur.rows[2]>>, careerRequiredKeys)
    /\ valid = "false"

----------------------------------------------------------------------------
(* Properties of the run of main() (specification Spec) *)

Last(q) == q[Len(q)]

Logged(type, d) == \E i \in 1..Len(log) : log[i].type = type /\ log[i].ds = d

\* the record count a dataset's success message reports
ReportedCount(d) ==
    log[CHOOSE i \in 1..Len(log) : log[i].type = "success" /\ log[i].ds = d].count

\* the header of a kind and one line per record, by the kind's column list
HeaderAndRows(d, rows) ==
    StringifyHeader(requiredKeysOf(d)) \o StringifyRows(rows, requiredKeysOf(d))

\* C2: while the validator has not answered true for a dataset's records in
\* this run, the dataset's output file is as it was before the run and no
\* write stream is open on it: the file is written only if, and only after,
\* validation returned true, and is left untouched when it returned false.
C2_ValidatorGate ==
    \A d \in Datasets :
        validated[d] # "true" => (csv[d] = preCsv[d] /\ stream # d)

\* the career file, present before the run, was replaced after validation
C2_Witness ==
    /\ validated["career"] = "true"
    /\ preCsv["career"] # <<>>
    /\ csv["career"] # preCsv["career"]
    /\ pc = At("career", "report")

\* C4: when a source file cannot be read, its pipeline takes no further
\* step, the run never reaches a later dataset or the normal end, the
\* outputs of that dataset and of every later one stay as they were, and
\* the process ends with status 1 after reporting the error.
C4_MissingSourceFatal ==
    \A d \in Datasets :
        (src[d] = <<>>) =>
            /\ pc.ds = d => pc.at = "read"
            /\ pc # AtEnd
            /\ exitCode # 0
            /\ data[d] = <<>> /\ validated[d] = "none" /\ csv[d] = preCsv[d]
            /\ d = "career" =>
                  /\ pc.ds # "thanks"
                  /\ data["thanks"] = <<>>
                  /\ validated["thanks"] = "none"
                  /\ csv["thanks"] = preCsv["thanks"]
            /\ pc = Exited => (exitCode = 1 /\ Last(log).type = "fatal")

\* the career source was unreadable: the run ended at once, with the thanks
\* source readable and the old thanks output still in place
C4_Witness ==
    /\ pc = Exited
    /\ src["career"] = <<>>
    /\ src["thanks"] # <<>>
    /\ preCsv["thanks"] # <<>>
    /\ Last(log) = LogEntry("fatal", "career", 0, "read")

\* C5: the process has no exit status while main() runs; it ends with a
\* non-zero status exactly when a source read or a CSV write raised an
\* error, and with status 0 otherwise, validation failures included.
C5_ExitStatus ==
    /\ pc # Exited => exitCode = -1
    /\ pc = Exited =>
          /\ exitCode \in {0, 1}
          /\ exitCode = 1 <=>
                (\E i \in 1..Len(log) : log[i].type = "fatal" /\ log[i].error \in {"read", "write"})
          /\ (\E d \in Datasets : src[d] = <<>> /\ (d = "career" \/ Logged("success", "career")))
                => exitCode = 1
          /\ (\A i \in 1..Len(log) : log[i].type # "fatal") => exitCode = 0

\* the career pipeline succeeded, the thanks write failed: status 1
C5_Witness ==
    /\ pc = Exited
    /\ exitCode = 1
    /\ Logged("success", "career")
    /\ Last(log) = LogEntry("fatal", "thanks", 0, "write")

\* C6 as stated: whenever a dataset's pipeline reported success, its output
\* file holds exactly the header and one row per extracted record, as many
\* rows as the reported count.
C6_FullOverwriteOnSuccess ==
    \A d \in Datasets :
        Logged("success", d) =>
            /\ csv[d] = <<HeaderAndRows(d, data[d][1].rows)>>
            /\ Len(ParseRaw(csv[d][1]).records) = 1 + ReportedCount(d)

\* C6 amended: whenever a dataset's pipeline reported success with at least
\* one record, its output file holds exactly the header and one row per
\* extracted record, as many rows as the reported count, whatever it held
\* before; when it reported success with zero records the file is as it was
\* before the run.
C6_FullOverwriteWhenNonEmpty ==
    \A d \in Datasets :
        Logged("success", d) =>
            IF ReportedCount(d) > 0
            THEN /\ ReportedCount(d) = Len(data[d][1].rows)
                 /\ csv[d] = <<HeaderAndRows(d, data[d][1].rows)>>
                 /\ Len(ParseRaw(csv[d][1]).records) = 1 + ReportedCount(d)
            ELSE csv[d] = preCsv[d]

\* success with two records over an output file of an earlier run
C6_Witness ==
    /\ Logged("success", "career")
    /\ ReportedCount("career") = 2
    /\ preCsv["career"] = <<StaleCsv("career")>>
    /\ pc = Exited

\* C7: at the end of every run, each output file holds its pre-run content
\* or the complete serialization of a validated record sequence.
C7_NoPartialCsv ==
    pc = Exited =>
        \A d \in Datasets :
            \/ csv[d] = preCsv[d]
            \/ /\ validated[d] = "true"
               /\ csv[d] = <<Stringify(data[d][1].rows)>>

\* the text is a header naming exactly the kind's columns followed by rows
\* that hold a cell for each column
WellShaped(d, text) ==
    LET raw == ParseRaw(text)
        keys == requiredKeysOf(d)
    IN  /\ ~raw.error
        /\ Len(raw.records) >= 1
        /\ raw.records[1] = [i \in 1..Len(keys) |-> <<keys[i]>>]
        /\ \A i \in 1..Len(raw.records) : Len(raw.records[i]) = Len(keys)
        /\ text[Len(text)] = NL

\* C8: every output file the run wrote has the kind's column list as its
\* header and a cell for each column in every row.
C8_OutputShape ==
    \A d \in Datasets :
        csv[d] # preCsv[d] => (csv[d] # <<>> /\ WellShaped(d, csv[d][1]))

----------------------------------------------------------------------------
(* Further properties of the library calls (specification SpecLib) *)

\* C11: both validators answer true for the empty array, whether the caller
\* built it or an extractor returned it, so an extraction that yields zero
\* records passes the validator.
C11_EmptyIsValid ==
    /\ (LastCall = "validateCareerData" /\ cur.isArray /\ Len(cur.rows) = 0) => valid = "true"
    /\ (LastCall = "validateThanksData" /\ cur.isArray /\ Len(cur.rows) = 0) => valid = "true"

\* a table whose two rows hold no cell gave zero records, which were validated
C11_Witness ==
    /\ calls = <<"extractCareerData", "validateCareerData">>
    /\ Len(arg.value) = 2
    /\ cur.isArray
    /\ Len(cur.rows) = 0
    /\ valid = "true"

\* C12: saveToCSV called with an empty array settles without an error and
\* leaves no file: the path, absent before the call, is absent after it.
C12_EmptySaveNoOp ==
    (LastCall = "saveToCSV" /\ cur.isArray /\ Len(cur.rows) = 0)
        => (saved = "resolved" /\ tmpFile = <<>>)

\* saveToCSV([], path) was called on a path that did not exist
C12_Witness ==
    /\ calls = <<"saveToCSV">>
    /\ arg.kind = "data"
    /\ cur.isArray
    /\ Len(cur.rows) = 0
    /\ saved = "resolved"
    /\ tmpFile = <<>>

\* C17: loadFromCSV called on a path that does not exist rejects with the
\* file-not-found error; it does not resolve, hands the caller no record,
\* and the path is still absent afterwards.
C17_MissingTargetRejects ==
    (LastCall = "loadFromCSV" /\ tmpFile = <<>>)
        => /\ loaded.state = "rejected"
           /\ loaded.error = "notFound"
           /\ loaded.rows = <<>>

\* loadFromCSV was the first call, on a path nothing was saved to
C17_Witness ==
    /\ calls = <<"loadFromCSV">>
    /\ tmpFile = <<>>
    /\ loaded.state = "rejected"
    /\ loaded.error = "notFound"

----------------------------------------------------------------------------
(* Properties of the extractors (specification SpecLib).  The caller's     *)
(* document stays in arg.value and the extractor's result in cur.rows, so  *)
(* each record is compared with the row or card it was read from.          *)

ExtractedCareer == calls # <<>> /\ calls[1] = "extractCareerData"
ExtractedThanks == calls # <<>> /\ calls[1] = "extractThanksData"

\* the rows of a table body that hold at least one cell, in document order
RECURSIVE RowsWithCells(_)
RowsWithCells(html) ==
    IF html = <<>> THEN <<>>
    ELSE (IF Len(Head(html)) >= 1 THEN <<Head(html)>> ELSE <<>>) \o RowsWithCells(Tail(html))

\* the cards of a thanks document, in document order
RECURSIVE AllCards(_)
AllCards(html) ==
    IF html = <<>> THEN <<>> ELSE Head(html).cards \o AllCards(Tail(html))

\* the annotation element of a row's name cell: <<>> or <<sup>>
Annotation(row) == IF Len(row) >= 2 THEN row[2].sup ELSE <<>>

HasDetail(sup) == sup.note # <<>> /\ sup.note[1] # <<>>

\* the note a row should give
ExpectedNote(row) ==
    LET a == Annotation(row)
    IN  IF a = <<>> THEN <<>>
        ELSE IF HasDetail(a[1]) THEN Trim(a[1].text) \o <<" ">> \o a[1].note[1]
        ELSE Trim(a[1].text)

\* the name a row should give: the cell's own text, trimmed
ExpectedServerName(row) == IF Len(row) >= 2 THEN Trim(row[2].text) ELSE <<>>

\* C13: for every extracted career row, note is "<marker> <detail>" when
\* the name cell holds an annotation element with a non-empty detail
\* attribute, the (trimmed) marker text alone when the annotation has no
\* detail, and the empty string when the cell holds no annotation element.
C13_NoteComposition ==
    ExtractedCareer =>
        LET rows == RowsWithCells(arg.value)
        IN  /\ Len(cur.rows) = Len(rows)
            /\ \A i \in 1..Len(rows) : Get(cur.rows[i], "note") = ExpectedNote(rows[i])

\* a row whose annotation reads m and carries the detail d gave the note "m d"
C13_Witness ==
    /\ ExtractedCareer
    /\ \E i \in 1..Len(cur.rows) :
          /\ Annotation(RowsWithCells(arg.value)[i]) = Sup(<<"m">>, <<<<"d">>>>)
          /\ Get(cur.rows[i], "note") = <<"m", " ", "d">>

\* C14: for every extracted career row, serverName is the trimmed text of
\* the name cell with the text of a nested annotation element left out;
\* without an annotation element it is the full trimmed cell text.
C14_ServerNameWithoutMarker ==
    ExtractedCareer =>
        LET rows == RowsWithCells(arg.value)
        IN  /\ Len(cur.rows) = Len(rows)
            /\ \A i \in 1..Len(rows) :
                  Get(cur.rows[i], "serverName") = ExpectedServerName(rows[i])

\* a name cell reading " a " with the annotation m gave the name "a"
C14_Witness ==
    /\ ExtractedCareer
    /\ \E i \in 1..Len(cur.rows) :
          LET row == RowsWithCells(arg.value)[i]
          IN  /\ Len(row) >= 2
              /\ row[2].text = <<" ", "a", " ">>
              /\ Annotation(row) # <<>>
              /\ Annotation(row)[1].text = <<"m">>
              /\ Get(cur.rows[i], "serverName") = <<"a">>

\* C15: for every extracted card, type is the card's type attribute when
\* the attribute is present and not empty, and "unknown" when it is missing
\* or empty.
C15_TypeDefault ==
    ExtractedThanks =>
        LET cards == AllCards(arg.value)
        IN  /\ Len(cur.rows) = Len(cards)
            /\ \A i \in 1..Len(cards) :
                  Get(cur.rows[i], "type") =
                      (IF cards[i].type = <<>> \/ cards[i].type[1] = <<>>
                       THEN <<"unknown">> ELSE cards[i].type[1])

\* a card with an empty type attribute was extracted as "unknown"
C15_Witness ==
    /\ ExtractedThanks
    /\ \E i \in 1..Len(cur.rows) :
          /\ AllCards(arg.value)[i].type = <<<<>>>>
          /\ Get(cur.rows[i], "type") = <<"unknown">>

\* a string: a sequence of characters
IsString(v) == DOMAIN v = 1..Len(v) /\ \A k \in 1..Len(v) : v[k] \in STRING

\* the record holds exactly the given keys, in their order, each with a string
HasShape(rec, keys) ==
    /\ Keys(rec) = keys
    /\ \A j \in 1..Len(rec) : IsString(rec[j][2])

\* C16: every record extractCareerData produces holds exactly the nine
\* career keys and every record extractThanksData produces exactly the
\* seven thanks keys, in the listed order, each with a string value.
C16_RecordShape ==
    /\ ExtractedCareer =>
          \A i \in 1..Len(cur.rows) :
              HasShape(cur.rows[i],
                       <<"no", "serverName", "note", "category", "count",
                         "department", "position", "job", "term">>)
    /\ ExtractedThanks =>
          \A i \in 1..Len(cur.rows) :
              HasShape(cur.rows[i],
                       <<"year", "type", "number", "user", "item", "date", "displayDate">>)

\* a card without attributes and child elements, in a section without a
\* heading, was extracted
C16_Witness ==
    /\ ExtractedThanks
    /\ \E i \in 1..Len(cur.rows) :
          /\ AllCards(arg.value)[i] = BareCard
          /\ Get(cur.rows[i], "date") = <<>>
          /\ Get(cur.rows[i], "year") = <<>>

\* the cell a career field is read from, counted from 1
FieldCell ==
    << <<"no", 1>>, <<"serverName", 2>>, <<"note", 2>>, <<"category", 3>>, <<"count", 4>>,
       <<"department", 5>>, <<"position", 6>>, <<"job", 7>>, <<"term", 8>> >>

\* the whole text of a cell, trimmed
TrimmedCellText(cell) ==
    Trim(cell.text \o (IF cell.sup = <<>> THEN <<>> ELSE cell.sup[1].text))

\* the value a field should have in the record of a row
ExpectedField(row, key, pos) ==
    IF pos > Len(row) THEN <<>>
    ELSE IF key = "serverName" THEN ExpectedServerName(row)
    ELSE IF key = "note" THEN ExpectedNote(row)
    ELSE TrimmedCellText(row[pos])

\* the record a row should give
ExpectedRecord(row) ==
    [j \in 1..Len(FieldCell) |->
        <<FieldCell[j][1], ExpectedField(row, FieldCell[j][1], FieldCell[j][2])>>]

\* C18: extractCareerData returns one record per table-body row that holds
\* at least one cell, in document order: the i-th record is the record of
\* the i-th such row; rows without cells give no record.
C18_RowOrderAndSkipping ==
    ExtractedCareer =>
        LET rows == RowsWithCells(arg.value)
        IN  /\ Len(cur.rows) = Cardinality({i \in 1..Len(arg.value) : Len(arg.value[i]) >= 1})
            /\ Len(cur.rows) = Len(rows)
            /\ \A i \in 1..Len(rows) : cur.rows[i] = ExpectedRecord(rows[i])

\* a row without cells followed by a row with cells gave one record
C18_Witness ==
    /\ ExtractedCareer
    /\ Len(arg.value) = 2
    /\ Len(arg.value[1]) = 0
    /\ Len(arg.value[2]) >= 1
    /\ Len(cur.rows) = 1
    /\ Get(cur.rows[1], "no") = Trim(arg.value[2][1].text)

\* C19: a row with one to seven cells gives a record in which every field
\* whose cell lies beyond the last cell is the empty string (serverName and
\* note too when the row has one cell), and the fields of the cells that
\* exist are read as usual.
C19_TolerantDegradation ==
    ExtractedCareer =>
        LET rows == RowsWithCells(arg.value)
        IN  /\ Len(cur.rows) = Len(rows)
            /\ \A i \in 1..Len(rows) :
                  Len(rows[i]) \in 1..7 =>
                      /\ Keys(cur.rows[i]) = [j \in 1..Len(FieldCell) |-> FieldCell[j][1]]
                      /\ \A j \in 1..Len(FieldCell) :
                            cur.rows[i][j][2] = ExpectedField(rows[i], FieldCell[j][1], FieldCell[j][2])

\* a row with a single cell gave a record with only no filled in
C19_Witness ==
    /\ ExtractedCareer
    /\ \E i \in 1..Len(cur.rows) :
          /\ Len(RowsWithCells(arg.value)[i]) = 1
          /\ Get(cur.rows[i], "no") = <<"a">>
          /\ Get(cur.rows[i], "serverName") = <<>>
          /\ Get(cur.rows[i], "note") = <<>>
          /\ Get(cur.rows[i], "term") = <<>>

\* C20: every field value of every record extractCareerData produces, the
\* composite note included, has no leading and no trailing whitespace.
C20_CareerValuesTrimmed ==
    ExtractedCareer => AllValues(cur.rows, NoEdgeWhitespace)

\* the trimmed heading text of the year group around each card, in document order
RECURSIVE CardYears(_)
CardYears(html) ==
    IF html = <<>> THEN <<>>
    ELSE [j \in 1..Len(Head(html).cards) |->
             IF Head(html).title = <<>> THEN <<>> ELSE Trim(Head(html).title[1])]
         \o CardYears(Tail(html))

\* the trimmed text of a child element, the empty string without the element
TextOrEmpty(el) == IF el = <<>> THEN <<>> ELSE Trim(el[1])

\* the value of the time element's datetime attribute, the empty string
\* without the element, without the attribute or with an empty attribute
ExpectedDate(card) ==
    IF card.time = <<>> THEN <<>>
    ELSE IF card.time[1].datetime = <<>> THEN <<>>
    ELSE card.time[1].datetime[1]

ExpectedDisplayDate(card) == IF card.time = <<>> THEN <<>> ELSE Trim(card.time[1].text)

\* C21: extractThanksData returns the records group by group in document
\* order and, inside a group, card by card in document order; the i-th
\* record is read from the i-th card of the document and its year is the
\* heading text of the group around that card.
C21_ThanksOrderAndYear ==
    ExtractedThanks =>
        LET cards == AllCards(arg.value)
            years == CardYears(arg.value)
        IN  /\ Len(cur.rows) = Len(cards)
            /\ \A i \in 1..Len(cards) :
                  /\ Get(cur.rows[i], "year") = years[i]
                  /\ Get(cur.rows[i], "number") = TextOrEmpty(cards[i].number)
                  /\ Get(cur.rows[i], "user") = TextOrEmpty(cards[i].user)
                  /\ Get(cur.rows[i], "item") = TextOrEmpty(cards[i].item)
                  /\ Get(cur.rows[i], "date") = ExpectedDate(cards[i])

\* two year groups, the second with two different cards: three records,
\* the first of year y, the others of year z in the order of their cards
C21_Witness ==
    /\ ExtractedThanks
    /\ Len(arg.value) = 2
    /\ Len(arg.value[1].cards) = 1
    /\ Len(arg.value[2].cards) = 2
    /\ arg.value[2].cards[1] # arg.value[2].cards[2]
    /\ Len(cur.rows) = 3
    /\ Get(cur.rows[1], "year") = <<"y">>
    /\ Get(cur.rows[2], "year") = <<"z">>
    /\ Get(cur.rows[3], "year") = <<"z">>

\* the card lacks a child element or the timestamp attribute
LacksPart(card) ==
    \/ card.number = <<>> \/ card.user = <<>> \/ card.item = <<>> \/ card.time = <<>>
    \/ (card.time # <<>> /\ card.time[1].datetime = <<>>)

\* C22: every card gives one record, also a card that lacks its number,
\* user, item tag or time element or the timestamp attribute; the field of
\* a missing part is the empty string and every other field, of this card
\* and of all other cards, is read as usual.
C22_ThanksTolerantDegradation ==
    ExtractedThanks =>
        LET cards == AllCards(arg.value)
        IN  /\ Len(cur.rows) = Len(cards)
            /\ \A i \in 1..Len(cards) :
                  /\ cards[i].number = <<>> => Get(cur.rows[i], "number") = <<>>
                  /\ cards[i].user = <<>> => Get(cur.rows[i], "user") = <<>>
                  /\ cards[i].item = <<>> => Get(cur.rows[i], "item") = <<>>
                  /\ cards[i].time = <<>> =>
                        (Get(cur.rows[i], "date") = <<>> /\ Get(cur.rows[i], "displayDate") = <<>>)
                  /\ (cards[i].time # <<>> /\ cards[i].time[1].datetime = <<>>) =>
                        Get(cur.rows[i], "date") = <<>>
                  /\ cards[i].number # <<>> => Get(cur.rows[i], "number") = Trim(cards[i].number[1])
                  /\ cards[i].user # <<>> => Get(cur.rows[i], "user") = Trim(cards[i].user[1])
                  /\ cards[i].item # <<>> => Get(cur.rows[i], "item") = Trim(cards[i].item[1])
                  /\ cards[i].time # <<>> =>
                        Get(cur.rows[i], "displayDate") = Trim(cards[i].time[1].text)
                  /\ (cards[i].time # <<>> /\ cards[i].time[1].datetime # <<>>) =>
                        Get(cur.rows[i], "date") = cards[i].time[1].datetime[1]

\* a card without a user element next to a complete card: two records
C22_Witness ==
    /\ ExtractedThanks
    /\ LET cards == AllCards(arg.value)
       IN  /\ Len(cards) = 2
           /\ Len(cur.rows) = 2
           /\ \E i, j \in 1..2 :
                 /\ cards[i].user = <<>>
                 /\ cards[i].number # <<>>
                 /\ Get(cur.rows[i], "user") = <<>>
                 /\ ~LacksPart(cards[j])
                 /\ Get(cur.rows[j], "user") = <<"a">>

\* the value a record gives for a column: its own value for the key, the
\* empty string when it has no such key
ValueFor(rec, key) ==
    IF \E j \in 1..Len(rec) : rec[j][1] = key
    THEN rec[CHOOSE j \in 1..Len(rec) : rec[j][1] = key][2]
    ELSE <<>>

\* one line of a CSV file: the fields as written, a delimiter between them
RECURSIVE LineOf(_)
LineOf(fields) ==
    IF fields = <<>> THEN <<NL>>
    ELSE IF Len(fields) = 1 THEN fields[1] \o <<NL>>
    ELSE fields[1] \o <<Delim>> \o LineOf(Tail(fields))

RECURSIVE Lines(_)
Lines(ls) == IF ls = <<>> THEN <<>> ELSE LineOf(Head(ls)) \o Lines(Tail(ls))

\* C23: for a non-empty array saveToCSV writes a header that is exactly
\* the key list of the first record, in its key order, and then one line
\* per record, the first and every later one, holding the record's values
\* for those columns in that order (nothing for a key the record lacks,
\* and none of the record's other keys).
C23_ColumnsFromFirstRecord ==
    (LastCall = "saveToCSV" /\ cur.isArray /\ Len(cur.rows) > 0) =>
        LET cols == Keys(cur.rows[1])
            header == [c \in 1..Len(cols) |-> <<cols[c]>>]
            lineOf(i) == [c \in 1..Len(cols) |-> StringifyField(ValueFor(cur.rows[i], cols[c]))]
        IN  /\ saved = "resolved"
            /\ tmpFile = <<LineOf(header) \o Lines([i \in 1..Len(cur.rows) |-> lineOf(i)])>>
            /\ ParseRaw(tmpFile[1]).records[1] = header

\* two records with different key lists were saved
C23_Witness ==
    /\ calls = <<"saveToCSV">>
    /\ cur.isArray
    /\ Len(cur.rows) = 2
    /\ KeySet(cur.rows[1]) # KeySet(cur.rows[2])
    /\ Len(cur.rows[1]) < Len(cur.rows[2])
    /\ tmpFile # <<>>
    /\ Len(ParseRaw(tmpFile[1]).records[1]) = Len(cur.rows[1])

\* an extractor's result was saved and loaded again
ExtractedSavedLoaded ==
    /\ Len(calls) = 3
    /\ calls[1] \in {"extractCareerData", "extractThanksData"}
    /\ calls[2] = "saveToCSV"
    /\ calls[3] = "loadFromCSV"

----------------------------------------------------------------------------
(* Further properties of the run of main() (specifications Spec, SpecFair) *)

\* the dataset's pipeline has ended: its success or its validation failure
\* was reported
PipelineDone(d) == Logged("success", d) \/ Logged("invalid", d)

\* the records main() holds for a dataset
RowsOf(d) == data[d][1].rows

\* C24: the career pipeline comes first; while it runs, nothing of the
\* thanks pipeline has happened; the thanks pipeline is entered only after
\* the career pipeline reported its success (its write finished) or its
\* validation failure; a write stream is open only while main() waits for
\* it, so no two writes are in progress at once.
C24_SequentialPipelines ==
    /\ pc.ds = "career" =>
          /\ data["thanks"] = <<>>
          /\ validated["thanks"] = "none"
          /\ csv["thanks"] = preCsv["thanks"]
          /\ ~PipelineDone("thanks")
    /\ (pc.ds = "thanks" \/ data["thanks"] # <<>> \/ validated["thanks"] # "none") =>
          /\ PipelineDone("career")
          /\ stream # "career"
          /\ (Logged("success", "career") /\ Len(RowsOf("career")) > 0) =>
                csv["career"] = <<Stringify(RowsOf("career"))>>
    /\ \A d \in Datasets : stream = d => pc = At(d, "await")

\* the thanks write is in progress after the career file was written
C24_Witness ==
    /\ pc = At("thanks", "await")
    /\ stream = "thanks"
    /\ Logged("success", "career")
    /\ ReportedCount("career") > 0
    /\ csv["career"] # preCsv["career"]

Other(d) == IF d = "career" THEN "thanks" ELSE "career"

\* C25: every step of a dataset's pipeline leaves the other dataset's
\* source, record sequence, validation answer and output file as they
\* were, and the records of a dataset are read from its own source only.
C25_DisjointFiles ==
    /\ [](\A d \in Datasets :
              data[d] # <<>> => (src[d] # <<>> /\ data[d] = <<Arr(extractOf(d, src[d][1]))>>))
    /\ [][\A d \in Datasets :
              pc.ds = d =>
                  /\ src' = src
                  /\ data'[Other(d)] = data[Other(d)]
                  /\ validated'[Other(d)] = validated[Other(d)]
                  /\ csv'[Other(d)] = csv[Other(d)]]_vars

\* both pipelines wrote: each output file holds its own dataset's records
C25_Witness ==
    /\ pc = At("thanks", "report")
    /\ Len(RowsOf("career")) > 0
    /\ Len(RowsOf("thanks")) > 0
    /\ csv["career"] = <<HeaderAndRows("career", RowsOf("career"))>>
    /\ csv["thanks"] = <<HeaderAndRows("thanks", RowsOf("thanks"))>>
    /\ preCsv["career"] # <<>>
    /\ preCsv["thanks"] # <<>>

\* C27: when the career pipeline succeeded and the thanks source cannot be
\* read, the run ends with status 1, the career file written in this run
\* keeps its new content (it is as the career pipeline left it), and the
\* thanks output file is as it was before the run.
C27_NoRollback ==
    (pc = Exited /\ Logged("success", "career") /\ src["thanks"] = <<>>) =>
        /\ exitCode = 1
        /\ Last(log) = LogEntry("fatal", "thanks", 0, "read")
        /\ IF ReportedCount("career") > 0
           THEN csv["career"] = <<HeaderAndRows("career", RowsOf("career"))>>
           ELSE csv["career"] = preCsv["career"]
        /\ csv["thanks"] = preCsv["thanks"]

\* the career file was replaced, then the thanks source was unreadable
C27_Witness ==
    /\ pc = Exited
    /\ exitCode = 1
    /\ src["thanks"] = <<>>
    /\ Logged("success", "career")
    /\ ReportedCount("career") > 0
    /\ preCsv["career"] # <<>>
    /\ csv["career"] # preCsv["career"]
    /\ preCsv["thanks"] # <<>>

\* the catch block reported a write error while dataset d was processed
WriteFailed(d) ==
    \E i \in 1..Len(log) : log[i].type = "fatal" /\ log[i].ds = d /\ log[i].error = "write"

\* C28: for a non-empty record sequence main() goes past await saveToCSV
\* only after the write stream finished with the whole text in the file;
\* while the stream is open no success is reported; a stream error rejects
\* the promise, so the run ends in the catch block without a success
\* message for that dataset.
C28_SuccessAfterFinish ==
    \A d \in Datasets :
        /\ stream = d => ~Logged("success", d)
        /\ (pc = At(d, "report") /\ Len(RowsOf(d)) > 0) =>
              (stream # d /\ csv[d] = <<Stringify(RowsOf(d))>>)
        /\ (Logged("success", d) /\ Len(RowsOf(d)) > 0) =>
              (stream # d /\ csv[d] = <<Stringify(RowsOf(d))>>)
        /\ WriteFailed(d) => (~Logged("success", d) /\ pc = Exited /\ exitCode = 1)

\* the thanks write finished and its success was reported last
C28_Witness ==
    /\ pc = AtEnd
    /\ Last(log).type = "success"
    /\ Last(log).ds = "thanks"
    /\ Last(log).count = 2
    /\ csv["thanks"] = <<Stringify(RowsOf("thanks"))>>
    /\ stream = "none"

\* C29: every run ends: the process exits, with status 0 after both
\* pipelines or with status 1 after an error, provided every step that can
\* be taken eventually is (each read returns or throws, each write stream
\* finishes or reports an error).
C29_Termination == <>(pc = Exited /\ exitCode \in {0, 1})

\* a run that wrote both files ended with status 0
C29_Witness ==
    /\ pc = Exited
    /\ exitCode = 0
    /\ Logged("success", "career")
    /\ Logged("success", "thanks")
    /\ csv["career"] # preCsv["career"]
    /\ csv["thanks"] # preCsv["thanks"]

----------------------------------------------------------------------------
(* Properties of the thanks page (specification SpecThanks) *)

\* C30: after any filter selections, once every pending hide timer has
\* fired, a card is hidden if and only if the last selected filter is not
\* "all" and differs from the card's type.
C30_FilterSettles ==
    (uiFilter # "none" /\ uiTimers = <<>>) =>
        \A i \in 1..Len(uiCards) :
            uiCards[i].hidden <=> (uiFilter # "all" /\ Lower(uiCards[i].type) # uiFilter)

====
